---- MODULE Spec2Model ----
(***************************************************************************)
(* A model of the scanned-PDF conversion service:                          *)
(*   - the process-pdf request handler (rasterization fallback chain,      *)
(*     chunked OCR with retry, assembly, cleanup), specification Spec;     *)
(*   - the in-memory progress store behind /api/progress (GET, POST and    *)
(*     the expiry timers), specifications SpecProgress and SpecLogs;       *)
(*   - the handler posting its progress updates to that store,             *)
(*     specification SpecReport;                                           *)
(*   - the handler in an images directory that holds files of an earlier   *)
(*     run and of another job, specification SpecShared;                   *)
(*   - the page that submits the files in batches, specification           *)
(*     SpecClient.                                                         *)
(*                                                                         *)
(* Strings are sequences of tokens: NL is a line break, FENCE a code       *)
(* fence, RULE a horizontal rule, and PageTok[i] the text visible on page  *)
(* i of the source document.                                               *)
(***************************************************************************)
EXTENDS Integers, Sequences, FiniteSets, Bags, TLC

\* ------------------------------------------------------------- bounds
MaxPages == 3        \* pages of the submitted document: 1..MaxPages
MaxOrphans == 1      \* workers of abandoned attempts that may still be running
MaxPartial == 1      \* images a strategy may have written when it throws

\* ---------------------------------------------------- program constants
CHUNK_SIZE == 2
MAX_RETRIES == 2
BACKOFF_MS == 1000

\* ------------------------------------------------------------- strings
NL == "NL"
FENCE == "FENCE"
RULE == "---"

PageTok == <<"p1", "p2", "p3", "p4", "p5", "p6", "p7", "p8">>

\* The text visible on page i of the document of another job.
OtherTok == <<"q1", "q2", "q3", "q4">>

Min(a, b) == IF a <= b THEN a ELSE b

\* Array.prototype.join over token strings.
RECURSIVE Join(_, _)
Join(strs, sep) ==
    IF Len(strs) = 0 THEN <<>>
    ELSE IF Len(strs) = 1 THEN strs[1]
    ELSE strs[1] \o sep \o Join(Tail(strs), sep)

\* String.prototype.split at line breaks: the lines of s (at least one).
RECURSIVE Split(_)
Split(s) ==
    IF \A i \in 1..Len(s) : s[i] # NL THEN <<s>>
    ELSE LET i == CHOOSE j \in 1..Len(s) :
                      s[j] = NL /\ \A k \in 1..(j - 1) : s[k] # NL
         IN  <<SubSeq(s, 1, i - 1)>> \o Split(SubSeq(s, i + 1, Len(s)))

\* String.prototype.trim(): leading and trailing white space removed.
RECURSIVE Trim(_)
Trim(s) ==
    IF s = <<>> THEN s
    ELSE IF Head(s) = NL THEN Trim(Tail(s))
    ELSE IF s[Len(s)] = NL THEN Trim(SubSeq(s, 1, Len(s) - 1))
    ELSE s

\* The separator between page texts and between chunk bodies.
SEP == <<NL, NL, RULE, NL, NL>>

\* The worker's treatment of the response text: trim, then strip the code
\* fence.  lines[lines.length - 1] of an empty array is undefined, and
\* undefined.trim() throws a TypeError.
CleanCodeBlocks(raw) ==
    LET text == Trim(raw) IN
    IF text # <<>> /\ Head(text) = FENCE
    THEN LET lines == Tail(Split(text)) IN
         IF lines = <<>> THEN [ok |-> FALSE, text |-> <<>>]
         ELSE IF Trim(lines[Len(lines)]) = <<FENCE>>
              THEN [ok |-> TRUE,
                    text |-> Join(SubSeq(lines, 1, Len(lines) - 1), <<NL>>)]
              ELSE [ok |-> TRUE, text |-> Join(lines, <<NL>>)]
    ELSE [ok |-> TRUE, text |-> text]

\* ---------------------------------------------------------- image files
\* fileId.n.png (pdf2pic, Puppeteer) and fileId_n.png (the command-line
\* rasterizers, numbered from 0); and the image n of another job, whose
\* identifier is this job's fileId followed by more characters.
DotFile(n) == [k |-> "dot", n |-> n]
UsFile(n) == [k |-> "us", n |-> n]
OtherFile(n) == [k |-> "other", n |-> n]

\* The page whose picture the file holds.
Content(f) ==
    IF f.k = "dot" THEN PageTok[f.n]
    ELSE IF f.k = "us" THEN PageTok[f.n + 1]
    ELSE OtherTok[f.n]

\* naturalSort: localeCompare(numeric): the underscore collates before the
\* full stop, punctuation before letters and digits, and the digit runs
\* compare as numbers.
NaturalLess(a, b) ==
    \/ a.k = "us" /\ b.k = "dot"
    \/ a.k # "other" /\ b.k = "other"
    \/ a.k = b.k /\ a.n < b.n

RECURSIVE SortFiles(_)
SortFiles(S) ==
    IF S = {} THEN <<>>
    ELSE LET m == CHOOSE f \in S : \A g \in S \ {f} : NaturalLess(f, g)
         IN  <<m>> \o SortFiles(S \ {m})

\* What the remote service answers for the picture of a page: the page's
\* text, bare or wrapped in a code fence, or a lone fence.
Responses(c) ==
    { <<c>>,
      <<c, NL>>,
      <<FENCE, NL, c, NL, FENCE>>,
      <<FENCE, NL, c>>,
      <<FENCE>> }

\* ======================================================= progress store
VARIABLES
    progressStore,     \* the Map: fileId -> record (a function of field names)
    timers,            \* the pending setTimeout callbacks: a bag of [fileId, at]
    now,               \* the clock, in milliseconds
    request,           \* the last request received by /api/progress
    reply,             \* its response
    posts,             \* POST requests received so far
    sent,              \* per fileId, the number of log lines posted so far
    lost               \* requests of updateProgress that were not stored

storeVars == <<progressStore, timers, now, request, reply, posts, sent, lost>>

\* ============================================================ the page
VARIABLES
    files,             \* the list of the page: the status of each file
    batchSize,         \* the selected batch size
    isProcessing,
    pendingFiles,      \* the files of the run, by their place in the list
    batchStart,        \* i of the batch loop
    processedCount,
    requests,          \* the files whose request to /api/process-pdf is in flight
    clientPc,          \* where processFiles is
    progressMessage,   \* the progressMessage of each file of the list
    progressDetails,   \* the progressDetails of each file of the list
    intervals,         \* the files whose progressInterval is set
    polls,             \* the files with a request to /api/progress in flight
    success            \* the success message of the page

clientVars == <<files, batchSize, isProcessing, pendingFiles, batchStart,
                processedCount, requests, clientPc, progressMessage,
                progressDetails, intervals, polls, success>>

\* =================================================== process-pdf handler
VARIABLES
    pc,                \* where the handler is
    pageCount,         \* pages of the submitted document
    file,              \* the form carries a file
    apiKey,            \* process.env.GEMINI_API_KEY, the empty string when unset
    pageIndex,         \* i of the page loop of method 5
    browser,           \* method 5's browser: "closed", "ready" for the next page,
                       \* or "loaded" with a document whose screenshot is due
    browserPage,       \* the pages of the document the browser page shows
    delay,             \* the delay of the pending backoff timer, in milliseconds
    waited,            \* the time since that timer was set, in milliseconds
    started,           \* the Attempt lines on the console: the chunk attempts
                       \* started so far, where the console is looked at
    cleanupWarning,    \* the place, in the order of the final cleanup, of the
                       \* artifact whose unlink threw; 0 when none did
    uploaded,          \* temp/uploads/fileId.pdf exists
    imagesDir,         \* the files of temp/images that start with fileId
    outputFile,        \* temp/outputs/fileId.pdf exists
    images,            \* the handler's image list
    conversionSuccess,
    fullMarkdown,
    chunkStart,
    attempt,
    chunkSuccess,
    chunkMarkdown,
    lastError,
    workers,           \* the page workers that have not settled, with those
                       \* of the awaited attempt that have fulfilled
    completion,        \* pages of the awaited attempt, in order of fulfilment
    response           \* the HTTP response, status 0 while there is none

jobVars == <<pc, pageCount, file, apiKey, pageIndex, browser, browserPage, delay, waited, started, cleanupWarning, uploaded, imagesDir, outputFile, images,
             conversionSuccess, fullMarkdown, chunkStart, attempt, chunkSuccess,
             chunkMarkdown, lastError, workers, completion, response>>

NoResponse == [status |-> 0, error |-> "", chunk |-> 0, cause |-> "", body |-> <<>>]

ErrorResponse(status, msg) ==
    [status |-> status, error |-> msg, chunk |-> 0, cause |-> "", body |-> <<>>]

\* The message of the error a remote call of the given attempt fails with.
ApiError(a) == <<"api error 1", "api error 2", "api error 3", "api error 4">>[a]
TypeError == "TypeError"

\* marked + the HTML template + page.pdf: the bytes of the output document.
Render(markdown) == <<"%PDF">> \o markdown

\* Mutant: the end of the chunk not clipped to the number of images.
ChunkEndUnclipped == chunkStart + CHUNK_SIZE

ChunkEnd == Min(chunkStart + CHUNK_SIZE, Len(images))
ChunkNumber == (chunkStart \div CHUNK_SIZE) + 1
ChunkPages == (chunkStart + 1)..ChunkEnd

\* The credentials a deployment may run with: none, a blank one, a key.
ApiKeys == {<<>>, <<NL>>, <<"key">>}

\* The outer catch of the handler: whatever is thrown is answered with 500.
OuterCatch(err) ==
    /\ response' = ErrorResponse(500, err)
    /\ pc' = "done"
    /\ UNCHANGED <<pageCount, file, apiKey, pageIndex, browser, browserPage, delay, waited, started, cleanupWarning, uploaded, imagesDir, outputFile,
                   images, conversionSuccess, fullMarkdown, chunkStart, attempt,
                   chunkSuccess, chunkMarkdown, lastError, workers, completion>>

\* A request as it arrives, the images directory left aside.
FreshJob ==
    /\ pc = "submitted"
    /\ pageCount \in 1..MaxPages
    /\ file \in BOOLEAN
    /\ apiKey \in ApiKeys
    /\ pageIndex = 0
    /\ browser = "closed"
    /\ browserPage = <<>>
    /\ delay = 0
    /\ waited = 0
    /\ started = 0
    /\ cleanupWarning = 0
    /\ uploaded = FALSE
    /\ outputFile = FALSE
    /\ images = <<>>
    /\ conversionSuccess = FALSE
    /\ fullMarkdown = <<>>
    /\ chunkStart = 0
    /\ attempt = 0
    /\ chunkSuccess = FALSE
    /\ chunkMarkdown = <<>>
    /\ lastError = "none"
    /\ workers = {}
    /\ completion = <<>>
    /\ response = NoResponse

\* A request with an identifier no file of the images directory starts with.
JobInit ==
    /\ FreshJob
    /\ imagesDir = {}

\* Mutant: the credential looked at after the upload has been saved.
ReceiveKeyCheckedLate ==
    /\ pc = "submitted"
    /\ \E loads \in BOOLEAN :
         IF ~file
         THEN /\ response' = ErrorResponse(400, "No file provided")
              /\ pc' = "done"
              /\ UNCHANGED <<uploaded, imagesDir>>
         ELSE /\ uploaded' = TRUE
              /\ \E kept \in SUBSET imagesDir : imagesDir' = kept
              /\ IF apiKey = <<>> \/ Trim(apiKey) = <<>>
                 THEN /\ response' = ErrorResponse(500, "GEMINI_API_KEY is not configured in .env file.")
                      /\ pc' = "done"
                 ELSE IF loads
                 THEN pc' = "pdf2pic" /\ UNCHANGED response
                 ELSE /\ response' = ErrorResponse(500, "load error")
                      /\ pc' = "done"
    /\ UNCHANGED <<pageCount, file, apiKey, pageIndex, browser, browserPage, delay, waited, started, cleanupWarning, outputFile, images, conversionSuccess, fullMarkdown,
                   chunkStart, attempt, chunkSuccess, chunkMarkdown, lastError,
                   workers, completion>>

\* The request arrives: the form data, the credential, the temp files, the
\* removal of old images of this fileId, the load of the document.
Receive ==
    /\ pc = "submitted"
    /\ \E loads \in BOOLEAN :
         IF ~file
         THEN /\ response' = ErrorResponse(400, "No file provided")
              /\ pc' = "done"
              /\ UNCHANGED <<uploaded, imagesDir>>
         ELSE IF apiKey = <<>> \/ Trim(apiKey) = <<>>
         THEN /\ response' = ErrorResponse(500, "GEMINI_API_KEY is not configured in .env file.")
              /\ pc' = "done"
              /\ UNCHANGED <<uploaded, imagesDir>>
         ELSE /\ uploaded' = TRUE
              /\ \E kept \in SUBSET imagesDir : imagesDir' = kept
              /\ IF loads
                 THEN pc' = "pdf2pic" /\ UNCHANGED response
                 ELSE /\ response' = ErrorResponse(500, "load error")
                      /\ pc' = "done"
    /\ UNCHANGED <<pageCount, file, apiKey, pageIndex, browser, browserPage, delay, waited, started, cleanupWarning, outputFile, images, conversionSuccess, fullMarkdown,
                   chunkStart, attempt, chunkSuccess, chunkMarkdown, lastError,
                   workers, completion>>

\* The files fileId.i.png of the pages in S, in page order.
RECURSIVE DotFiles(_)
DotFiles(S) ==
    IF S = {} THEN <<>>
    ELSE LET m == CHOOSE i \in S : \A j \in S : i <= j
         IN  <<DotFile(m)>> \o DotFiles(S \ {m})

Range(seq) == { seq[i] : i \in 1..Len(seq) }

\* Whether a strategy's result is taken.
Pdf2picAccepts(imgs) == Len(imgs) = pageCount
CommandAccepts(imageFiles) == Len(imageFiles) > 0
PuppeteerAccepts(imgs) == Len(imgs) = pageCount

\* Method 1: pdf2pic, page by page.  An exception at page n + 1 ends the loop
\* and leaves the n images written before it.
Pdf2pic ==
    /\ pc = "pdf2pic"
    /\ \E n \in (0..Min(MaxPartial, pageCount)) \cup {pageCount} :
         /\ images' = DotFiles(1..n)
         /\ imagesDir' = imagesDir \cup Range(DotFiles(1..n))
         /\ conversionSuccess' = Pdf2picAccepts(images')
    /\ pc' = IF conversionSuccess' THEN "check" ELSE "magick"
    /\ UNCHANGED <<pageCount, file, apiKey, pageIndex, browser, browserPage, delay, waited, started, cleanupWarning, uploaded, outputFile, fullMarkdown, chunkStart, attempt,
                   chunkSuccess, chunkMarkdown, lastError, workers, completion,
                   response>>

\* Methods 2 to 4: a command-line rasterizer writes fileId_00.png, ..., then
\* every png of the directory that starts with fileId is collected.
Command(self, next) ==
    /\ pc = self
    /\ \E threw \in BOOLEAN, k \in 0..pageCount :
         /\ threw => k <= MaxPartial
         /\ imagesDir' = imagesDir \cup { UsFile(i) : i \in 0..(k - 1) }
         /\ IF ~threw /\ CommandAccepts(SortFiles(imagesDir'))
            THEN /\ images' = SortFiles(imagesDir')
                 /\ conversionSuccess' = TRUE
                 /\ pc' = "check"
            ELSE /\ images' = <<>>
                 /\ conversionSuccess' = FALSE
                 /\ pc' = next
    /\ UNCHANGED <<pageCount, file, apiKey, pageIndex, browser, browserPage, delay, waited, started, cleanupWarning, uploaded, outputFile, fullMarkdown, chunkStart, attempt,
                   chunkSuccess, chunkMarkdown, lastError, workers, completion,
                   response>>

Magick == Command("magick", "convert")
Convert == Command("convert", "gm")

\* Mutant: after gm the chain starts over at magick.
GmThenMagick == Command("gm", "magick")

Gm == Command("gm", "puppeteer")

\* Method 5, the browser fallback.  What it leaves alone.
PuppeteerKeeps ==
    UNCHANGED <<pageCount, file, apiKey, delay, waited, started, cleanupWarning,
                uploaded, outputFile, fullMarkdown, chunkStart, attempt,
                chunkSuccess, chunkMarkdown, lastError, workers, completion,
                response>>

\* The catch of method 5: the images made so far stay in the directory and
\* in the list, and the browser is not closed.
PuppeteerCatch ==
    /\ pc' = "check"
    /\ pageIndex' = 0
    /\ UNCHANGED <<browser, browserPage, imagesDir, conversionSuccess>>

\* images = [], puppeteer.launch and browser.newPage.
Puppeteer ==
    /\ pc = "puppeteer"
    /\ browser = "closed"
    /\ images' = <<>>
    /\ \E threw \in BOOLEAN :
         IF threw THEN PuppeteerCatch
         ELSE /\ browser' = "ready"
              /\ browserPage' = <<>>
              /\ pageIndex' = 0
              /\ UNCHANGED <<pc, imagesDir, conversionSuccess>>
    /\ PuppeteerKeeps

\* Mutant: the source document is opened as it is.
WholeDocument(index) == [ k \in 1..pageCount |-> k ]

\* copyPages(pdfDoc, [i]): the pages of the temporary document of iteration i.
SinglePage(index) == <<index + 1>>

\* The head of the page loop: the temporary one-page document is written and
\* the browser page is sent to it.
PuppeteerGoto ==
    /\ pc = "puppeteer"
    /\ browser = "ready"
    /\ pageIndex < pageCount
    /\ \E threw \in BOOLEAN :
         /\ threw => Len(images) <= MaxPartial
         /\ IF threw THEN PuppeteerCatch
            ELSE /\ browserPage' = SinglePage(pageIndex)
                 /\ browser' = "loaded"
                 /\ UNCHANGED <<pc, pageIndex, imagesDir, conversionSuccess>>
    /\ UNCHANGED images
    /\ PuppeteerKeeps

\* page.screenshot to fileId.(i + 1).png, images.push, the temporary document
\* is deleted, i++.
PuppeteerScreenshot ==
    /\ pc = "puppeteer"
    /\ browser = "loaded"
    /\ \E threw \in BOOLEAN :
         /\ threw => Len(images) <= MaxPartial
         /\ IF threw THEN PuppeteerCatch /\ UNCHANGED images
            ELSE /\ imagesDir' = imagesDir \cup {DotFile(pageIndex + 1)}
                 /\ images' = Append(images, DotFile(pageIndex + 1))
                 /\ pageIndex' = pageIndex + 1
                 /\ browser' = "ready"
                 /\ UNCHANGED <<pc, browserPage, conversionSuccess>>
    /\ PuppeteerKeeps

\* The loop has ended: browser.close, then the count of the images decides.
PuppeteerClose ==
    /\ pc = "puppeteer"
    /\ browser = "ready"
    /\ pageIndex >= pageCount
    /\ \E threw \in BOOLEAN :
         conversionSuccess' = (~threw /\ PuppeteerAccepts(images))
    /\ browser' = "closed"
    /\ browserPage' = <<>>
    /\ pageIndex' = 0
    /\ pc' = "check"
    /\ UNCHANGED <<images, imagesDir>>
    /\ PuppeteerKeeps

\* Mutant: with images at hand the handler goes straight to the rendering.
ConversionCheckSkipsOcr ==
    /\ pc = "check"
    /\ IF ~conversionSuccess \/ Len(images) = 0
       THEN /\ response' = ErrorResponse(500, "Failed to convert PDF to images.")
            /\ pc' = "done"
       ELSE /\ pc' = "assemble"
            /\ UNCHANGED response
    /\ UNCHANGED <<pageCount, file, apiKey, pageIndex, browser, browserPage, delay, waited, started, cleanupWarning, uploaded, imagesDir, outputFile, images,
                   conversionSuccess, fullMarkdown, chunkStart, attempt, chunkSuccess,
                   chunkMarkdown, lastError, workers, completion>>

\* The test after the five methods.
ConversionCheck ==
    /\ pc = "check"
    /\ IF ~conversionSuccess \/ Len(images) = 0
       THEN /\ response' = ErrorResponse(500, "Failed to convert PDF to images.")
            /\ pc' = "done"
       ELSE /\ pc' = "ocr"
            /\ UNCHANGED response
    /\ UNCHANGED <<pageCount, file, apiKey, pageIndex, browser, browserPage, delay, waited, started, cleanupWarning, uploaded, imagesDir, outputFile, images,
                   conversionSuccess, fullMarkdown, chunkStart, attempt, chunkSuccess,
                   chunkMarkdown, lastError, workers, completion>>

\* ------------------------------------------------------------ chunk loop
Worker(p, a, st, text) == [page |-> p, attempt |-> a, st |-> st, text |-> text]

\* The workers the handler is awaiting: those of the running attempt.
Awaited(w) == pc = "await" /\ w.attempt = attempt /\ w.page \in ChunkPages

\* The progress record is initialised and the remote model is set up.
StartOcr ==
    /\ pc = "ocr"
    /\ pc' = "chunk"
    /\ UNCHANGED <<pageCount, file, apiKey, pageIndex, browser, browserPage, delay, waited, started, cleanupWarning, uploaded, imagesDir, outputFile,
                   images, conversionSuccess, fullMarkdown, chunkStart, attempt,
                   chunkSuccess, chunkMarkdown, lastError, workers, completion, response>>

\* Top of the chunk loop body.
StartChunk ==
    /\ pc = "chunk"
    /\ chunkSuccess' = FALSE
    /\ chunkMarkdown' = <<>>
    /\ lastError' = "none"
    /\ attempt' = 1
    /\ pc' = "attempt"
    /\ UNCHANGED <<pageCount, file, apiKey, pageIndex, browser, browserPage, delay, waited, started, cleanupWarning, uploaded, imagesDir, outputFile, images,
                   conversionSuccess, fullMarkdown, chunkStart, workers, completion,
                   response>>

\* Mutant: the retry calls the worker for the pages that had not fulfilled.
StartAttemptFailedPagesOnly ==
    /\ pc = "attempt"
    /\ workers' = workers \cup { Worker(p, attempt, "before", <<>>) :
                                   p \in { q \in ChunkPages :
                                             attempt = 1 \/ q \notin Range(completion) } }
    /\ completion' = <<>>
    /\ pc' = "await"
    /\ UNCHANGED <<pageCount, file, apiKey, pageIndex, browser, browserPage, delay, waited, cleanupWarning, uploaded, imagesDir, outputFile, images,
                   conversionSuccess, fullMarkdown, chunkStart, attempt, chunkSuccess,
                   chunkMarkdown, lastError, response>>

\* chunk.map(async ...): one worker per image of the chunk, each running up
\* to its first await (the progress update before the call).
StartAttempt ==
    /\ pc = "attempt"
    /\ workers' = workers \cup { Worker(p, attempt, "before", <<>>) : p \in ChunkPages }
    /\ completion' = <<>>
    /\ pc' = "await"
    /\ UNCHANGED <<pageCount, file, apiKey, pageIndex, browser, browserPage, delay, waited, cleanupWarning, uploaded, imagesDir, outputFile, images,
                   conversionSuccess, fullMarkdown, chunkStart, attempt, chunkSuccess,
                   chunkMarkdown, lastError, response>>

\* Mutant: one retry too few.
RetryAllowedOneLess(a) == a < MAX_RETRIES

\* Mutant: one retry too many.
RetryAllowedOneMore(a) == a <= MAX_RETRIES + 1

\* Whether a failed attempt is followed by another one.
RetryAllowed(a) == a <= MAX_RETRIES

\* Mutant: the first error of the chunk is kept instead of the last.
CatchKeepsFirst(err) ==
    /\ lastError' = IF lastError = "none" THEN err ELSE lastError
    /\ pc' = IF RetryAllowed(attempt) THEN "backoff" ELSE "afterloop"

\* The catch of the attempt loop; with no attempt left the loop ends.
Catch(err) ==
    /\ lastError' = err
    /\ pc' = IF RetryAllowed(attempt) THEN "backoff" ELSE "afterloop"

\* A worker rejects.  Promise.all rejects with the first rejection of the
\* attempt it awaits, and the workers of that attempt that have not settled
\* run on; the rejection of a worker nobody awaits goes unobserved.
Reject(w, err) ==
    /\ IF Awaited(w)
       THEN /\ workers' = { x \in workers \ {w} : x.st # "fulfilled" }
            /\ Cardinality(workers') <= MaxOrphans
            /\ Catch(err)
       ELSE /\ workers' = workers \ {w}
            /\ UNCHANGED <<pc, lastError>>
    /\ UNCHANGED <<pageCount, file, apiKey, pageIndex, browser, browserPage, delay, waited, started, cleanupWarning, uploaded, imagesDir, outputFile, images,
                   conversionSuccess, fullMarkdown, chunkStart, attempt, chunkSuccess,
                   chunkMarkdown, completion, response>>

\* The worker reads its image and sends it to the remote service; the read
\* throws when the file has been deleted.
SendCall(w) ==
    /\ w \in workers
    /\ w.st = "before"
    /\ IF images[w.page] \in imagesDir
       THEN /\ workers' = (workers \ {w}) \cup {Worker(w.page, w.attempt, "calling", <<>>)}
            /\ UNCHANGED <<pc, pageCount, file, apiKey, pageIndex, browser, browserPage, delay, waited, started, cleanupWarning, uploaded, imagesDir, outputFile, images,
                           conversionSuccess, fullMarkdown, chunkStart, attempt,
                           chunkSuccess, chunkMarkdown, lastError, completion, response>>
       ELSE Reject(w, "ENOENT")

\* The remote call fails.
CallFails(w) ==
    /\ w \in workers
    /\ w.st = "calling"
    /\ Reject(w, ApiError(w.attempt))

\* The remote call returns; the text is cleaned, then the worker posts the
\* progress update after the call.
CallReturnsWith(w, raw) ==
    /\ w \in workers
    /\ w.st = "calling"
    /\ LET r == CleanCodeBlocks(raw) IN
         IF r.ok
         THEN /\ workers' = (workers \ {w}) \cup {Worker(w.page, w.attempt, "after", r.text)}
              /\ UNCHANGED <<pc, pageCount, file, apiKey, pageIndex, browser, browserPage, delay, waited, started, cleanupWarning, uploaded, imagesDir, outputFile, images,
                             conversionSuccess, fullMarkdown, chunkStart, attempt,
                             chunkSuccess, chunkMarkdown, lastError, completion, response>>
         ELSE Reject(w, TypeError)

CallReturns(w) ==
    /\ w \in workers
    /\ \E raw \in Responses(Content(images[w.page])) : CallReturnsWith(w, raw)

\* The worker returns its result.
WorkerReturns(w) ==
    /\ w \in workers
    /\ w.st = "after"
    /\ IF Awaited(w)
       THEN /\ workers' = (workers \ {w}) \cup {Worker(w.page, w.attempt, "fulfilled", w.text)}
            /\ completion' = Append(completion, w.page)
       ELSE /\ workers' = workers \ {w}
            /\ UNCHANGED completion
    /\ UNCHANGED <<pc, pageCount, file, apiKey, pageIndex, browser, browserPage, delay, waited, started, cleanupWarning, uploaded, imagesDir, outputFile, images,
                   conversionSuccess, fullMarkdown, chunkStart, attempt, chunkSuccess,
                   chunkMarkdown, lastError, response>>

\* The pageNumber of the worker at the given index of the chunk.
PageNumber(start, index) == start + index + 1

\* Promise.all: the results in the order of the promises, not of fulfilment.
ChunkResults ==
    [ i \in 1..(ChunkEnd - chunkStart) |->
        LET w == CHOOSE x \in workers :
                     Awaited(x) /\ x.page = chunkStart + i /\ x.st = "fulfilled"
        IN  [pageNumber |-> PageNumber(chunkStart, i - 1), text |-> w.text] ]

\* Mutant: the comparison reversed, b.pageNumber - a.pageNumber.
RECURSIVE SortDescending(_)
SortDescending(results) ==
    IF results = <<>> THEN <<>>
    ELSE LET i == CHOOSE j \in 1..Len(results) :
                      /\ \A k \in 1..Len(results) : results[j].pageNumber >= results[k].pageNumber
                      /\ \A k \in 1..(j - 1) : results[k].pageNumber # results[j].pageNumber
         IN  <<results[i]>> \o
             SortDescending(SubSeq(results, 1, i - 1) \o SubSeq(results, i + 1, Len(results)))

\* results.sort((a, b) => a.pageNumber - b.pageNumber)
RECURSIVE SortByPageNumber(_)
SortByPageNumber(results) ==
    IF results = <<>> THEN <<>>
    ELSE LET i == CHOOSE j \in 1..Len(results) :
                      /\ \A k \in 1..Len(results) : results[j].pageNumber <= results[k].pageNumber
                      /\ \A k \in 1..(j - 1) : results[k].pageNumber # results[j].pageNumber
         IN  <<results[i]>> \o
             SortByPageNumber(SubSeq(results, 1, i - 1) \o SubSeq(results, i + 1, Len(results)))

Texts(results) == [ i \in 1..Len(results) |-> results[i].text ]

\* Mutant: the separator added after every chunk.
AccumulateAlways(full, chunk, last) == full \o chunk \o SEP

\* fullMarkdown += chunkMarkdown, and the separator unless it was the last chunk.
Accumulate(full, chunk, last) == full \o chunk \o (IF last THEN <<>> ELSE SEP)

\* Every worker of the attempt has fulfilled: the chunk's text is joined, the
\* chunk has succeeded and the attempt loop is left.
AttemptSucceeds ==
    /\ pc = "await"
    /\ \A p \in ChunkPages : \E w \in workers : Awaited(w) /\ w.page = p /\ w.st = "fulfilled"
    /\ chunkMarkdown' = Join(Texts(SortByPageNumber(ChunkResults)), SEP)
    /\ chunkSuccess' = TRUE
    /\ workers' = { w \in workers : ~Awaited(w) }
    /\ pc' = "afterloop"
    /\ UNCHANGED <<pageCount, file, apiKey, pageIndex, browser, browserPage, delay, waited, started, cleanupWarning, uploaded, imagesDir, outputFile, images,
                   conversionSuccess, fullMarkdown, chunkStart, attempt, lastError,
                   completion, response>>

\* Mutant: the test after the attempt loop left out.
ChunkFailedIgnored == FALSE

\* The test after the attempt loop.
ChunkFailed == ~chunkSuccess

\* After the attempt loop: a failed chunk throws, and the outer catch answers;
\* a chunk that succeeded is added to the document and the next one follows.
AfterAttempts ==
    /\ pc = "afterloop"
    /\ IF ChunkFailed
       THEN /\ response' = [status |-> 500, error |-> "Failed to process chunk",
                            chunk |-> ChunkNumber, cause |-> lastError, body |-> <<>>]
            /\ pc' = "done"
            /\ UNCHANGED <<fullMarkdown, chunkStart>>
       ELSE /\ fullMarkdown' = Accumulate(fullMarkdown, chunkMarkdown,
                                          ~(ChunkEnd < Len(images)))
            /\ chunkStart' = chunkStart + CHUNK_SIZE
            /\ pc' = IF chunkStart' < Len(images) THEN "chunk" ELSE "assemble"
            /\ UNCHANGED response
    /\ UNCHANGED <<pageCount, file, apiKey, pageIndex, browser, browserPage, delay, waited, started, cleanupWarning, uploaded, imagesDir, outputFile, images,
                   conversionSuccess, attempt, chunkSuccess, chunkMarkdown, lastError,
                   workers, completion>>

\* Mutant: the same delay after every failed attempt.
BackoffConstant(a) == BACKOFF_MS

\* 1000 * attempt: the delay before the attempt after attempt a.
BackoffDelay(a) == BACKOFF_MS * a

\* A retry is due: setTimeout(resolve, 1000 * attempt).
Backoff ==
    /\ pc = "backoff"
    /\ delay = 0
    /\ delay' = BackoffDelay(attempt)
    /\ waited' = 0
    /\ UNCHANGED <<pc, pageCount, file, apiKey, pageIndex, browser, browserPage, started,
                   cleanupWarning, uploaded, imagesDir, outputFile, images,
                   conversionSuccess, fullMarkdown, chunkStart, attempt, chunkSuccess,
                   chunkMarkdown, lastError, workers, completion, response>>

\* Mutant: the promise of the delay is never resolved.
SleepForever ==
    /\ pc = "backoff"
    /\ delay > 0
    /\ waited < delay
    /\ UNCHANGED jobVars

\* Time passes while the handler awaits the timer.
Sleep ==
    /\ pc = "backoff"
    /\ delay > 0
    /\ waited < delay
    /\ waited' = waited + BACKOFF_MS
    /\ UNCHANGED <<pc, pageCount, file, apiKey, pageIndex, browser, browserPage, delay, started,
                   cleanupWarning, uploaded, imagesDir, outputFile, images,
                   conversionSuccess, fullMarkdown, chunkStart, attempt, chunkSuccess,
                   chunkMarkdown, lastError, workers, completion, response>>

\* The timer fires, when its delay has passed: attempt++ and the next attempt.
Retry ==
    /\ pc = "backoff"
    /\ delay > 0
    /\ waited >= delay
    /\ attempt' = attempt + 1
    /\ delay' = 0
    /\ waited' = 0
    /\ pc' = "attempt"
    /\ UNCHANGED <<pageCount, file, apiKey, pageIndex, browser, browserPage, started,
                   cleanupWarning, uploaded, imagesDir, outputFile, images,
                   conversionSuccess, fullMarkdown, chunkStart, chunkSuccess,
                   chunkMarkdown, lastError, workers, completion, response>>

\* Markdown to HTML to PDF; an exception of the renderer goes to the outer catch.
Assemble ==
    /\ pc = "assemble"
    /\ \E ok \in BOOLEAN :
         IF ok
         THEN /\ outputFile' = TRUE
              /\ pc' = "cleanup"
              /\ UNCHANGED response
         ELSE /\ response' = ErrorResponse(500, "render error")
              /\ pc' = "done"
              /\ UNCHANGED outputFile
    /\ UNCHANGED <<pageCount, file, apiKey, pageIndex, browser, browserPage, delay, waited, started, cleanupWarning, uploaded, imagesDir, images, conversionSuccess,
                   fullMarkdown, chunkStart, attempt, chunkSuccess, chunkMarkdown,
                   lastError, workers, completion>>

\* The output is read, the temp files are deleted inside one try (the first
\* unlink that throws skips the rest), and the document is returned.
Respond ==
    /\ pc = "cleanup"
    /\ \E d \in 0..(Len(images) + 2) :    \* unlinks done before one throws, if any
         /\ cleanupWarning' = IF d = Len(images) + 2 THEN 0 ELSE d + 1
         /\ uploaded' = (d = 0)
         /\ imagesDir' = imagesDir \ { images[i] : i \in 1..Min(d - 1, Len(images)) }
         /\ outputFile' = (d < Len(images) + 2)
    /\ response' = [status |-> 200, error |-> "", chunk |-> 0, cause |-> "",
                    body |-> Render(fullMarkdown)]
    /\ pc' = "done"
    /\ UNCHANGED <<pageCount, file, apiKey, pageIndex, browser, browserPage, delay, waited, started, images, conversionSuccess, fullMarkdown, chunkStart,
                   attempt, chunkSuccess, chunkMarkdown, lastError, workers,
                   completion>>

\* The steps of the handler but the start of an attempt, its progress
\* updates left out.
JobNextRest ==
    \/ Receive /\ UNCHANGED <<storeVars, clientVars>>
    \/ Pdf2pic /\ UNCHANGED <<storeVars, clientVars>>
    \/ Magick /\ UNCHANGED <<storeVars, clientVars>>
    \/ Convert /\ UNCHANGED <<storeVars, clientVars>>
    \/ Gm /\ UNCHANGED <<storeVars, clientVars>>
    \/ Puppeteer /\ UNCHANGED <<storeVars, clientVars>>
    \/ PuppeteerGoto /\ UNCHANGED <<storeVars, clientVars>>
    \/ PuppeteerScreenshot /\ UNCHANGED <<storeVars, clientVars>>
    \/ PuppeteerClose /\ UNCHANGED <<storeVars, clientVars>>
    \/ ConversionCheck /\ UNCHANGED <<storeVars, clientVars>>
    \/ StartOcr /\ UNCHANGED <<storeVars, clientVars>>
    \/ StartChunk /\ UNCHANGED <<storeVars, clientVars>>
    \/ \E w \in workers : SendCall(w) /\ UNCHANGED <<storeVars, clientVars>>
    \/ \E w \in workers : CallFails(w) /\ UNCHANGED <<storeVars, clientVars>>
    \/ \E w \in workers : CallReturns(w) /\ UNCHANGED <<storeVars, clientVars>>
    \/ \E w \in workers : WorkerReturns(w) /\ UNCHANGED <<storeVars, clientVars>>
    \/ AttemptSucceeds /\ UNCHANGED <<storeVars, clientVars>>
    \/ AfterAttempts /\ UNCHANGED <<storeVars, clientVars>>
    \/ Backoff /\ UNCHANGED <<storeVars, clientVars>>
    \/ Sleep /\ UNCHANGED <<storeVars, clientVars>>
    \/ Retry /\ UNCHANGED <<storeVars, clientVars>>
    \/ Assemble /\ UNCHANGED <<storeVars, clientVars>>
    \/ Respond /\ UNCHANGED <<storeVars, clientVars>>

\* console.log of the attempt that starts.
LogAttempt == started' = started + 1

\* The handler, its progress updates and its console left out.
JobNext ==
    \/ StartAttempt /\ UNCHANGED <<storeVars, clientVars, started>>
    \/ JobNextRest

\* The handler and its console.
ConsoleNext ==
    \/ StartAttempt /\ LogAttempt /\ UNCHANGED <<storeVars, clientVars>>
    \/ JobNextRest

\* Another job, whose identifier starts with this job's fileId, writes one of
\* its images to the images directory, or deletes it.
OtherJob(n) ==
    /\ imagesDir' = IF OtherFile(n) \in imagesDir THEN imagesDir \ {OtherFile(n)}
                    ELSE imagesDir \cup {OtherFile(n)}
    /\ UNCHANGED <<pc, pageCount, file, apiKey, pageIndex, browser, browserPage, delay, waited, started, cleanupWarning, uploaded, outputFile, images,
                   conversionSuccess, fullMarkdown, chunkStart, attempt, chunkSuccess,
                   chunkMarkdown, lastError, workers, completion, response>>

\* A step of the handler, whatever becomes of the store.
JobStep ==
    \/ Receive
    \/ Pdf2pic
    \/ Magick
    \/ Convert
    \/ Gm
    \/ Puppeteer
    \/ PuppeteerGoto
    \/ PuppeteerScreenshot
    \/ PuppeteerClose
    \/ ConversionCheck
    \/ StartOcr
    \/ StartChunk
    \/ StartAttempt
    \/ \E w \in workers : SendCall(w)
    \/ \E w \in workers : CallFails(w)
    \/ \E w \in workers : CallReturns(w)
    \/ \E w \in workers : WorkerReturns(w)
    \/ AttemptSucceeds
    \/ AfterAttempts
    \/ Backoff
    \/ Sleep
    \/ Retry
    \/ Assemble
    \/ Respond

vars == <<jobVars, storeVars, clientVars>>

\* ================================================== claims on the handler
IsPageTok(t) == t \in Range(PageTok)
PageToks(str) == SelectSeq(str, IsPageTok)

\* The text of each page of the image list, as the remote service reads it.
PageTexts == [ i \in 1..Len(images) |-> <<Content(images[i])>> ]

Completed == response.status = 200
ChunkFailure == response.error = "Failed to process chunk"
Calling == { w \in workers : w.st = "calling" }

\* C1: the body of a completed job holds the page texts in ascending page
\* order (page 1, 2, ..., n), whatever the order in which the workers of a
\* chunk fulfilled.
C1_PageOrder ==
    Completed =>
        /\ PageToks(fullMarkdown) = [ i \in 1..Len(images) |-> Content(images[i]) ]
        /\ PageToks(response.body) = PageToks(fullMarkdown)

\* A job completed whose chunk of pages 1 and 2 saw page 2 fulfil first.
C1_Witness ==
    /\ Completed
    /\ Len(images) = 2
    /\ completion = <<2, 1>>

\* C2 (as claimed): a strategy's result is accepted only when it holds as
\* many images as the document has pages.
C2_CountMatches == conversionSuccess => Len(images) = pageCount

\* C3: a failed attempt that is not the last one does not fail the job, and
\* the output of a completed job is the output of the failure-free run: the
\* page texts joined by the separator, whatever the number of failed attempts.
C3_RetryTransparent ==
    /\ ChunkFailure => attempt = MAX_RETRIES + 1
    /\ pc = "backoff" => attempt <= MAX_RETRIES /\ response = NoResponse
    /\ Completed => response.body = Render(Join(PageTexts, SEP))

\* A job completed whose last chunk failed twice and succeeded on attempt 3.
C3_Witness ==
    /\ Completed
    /\ attempt = MAX_RETRIES + 1
    /\ lastError = ApiError(MAX_RETRIES)

\* C4: when a chunk fails on all attempts the job answers with an error that
\* carries the error of the last attempt; no later chunk is started, nothing
\* is assembled and no document is returned.
C4_ChunkExhausted ==
    ChunkFailure =>
        /\ response.status = 500
        /\ response.chunk = ChunkNumber
        /\ response.cause \in {ApiError(MAX_RETRIES + 1), TypeError}
        /\ response.body = <<>>
        /\ ~outputFile
        /\ pc = "done"
        /\ \A w \in workers : w.page <= ChunkEnd

\* The second chunk failed after the first one had been added to the document.
C4_Witness ==
    /\ ChunkFailure
    /\ response.chunk = 2
    /\ fullMarkdown # <<>>
    /\ response.cause = ApiError(MAX_RETRIES + 1)

\* C5 (as claimed): at most CHUNK_SIZE remote calls are outstanding.
C5_OutstandingBound == Cardinality(Calling) <= CHUNK_SIZE

\* C6: a worker of a chunk exists only when every page of the chunks before
\* it has been added to the document, and after a chunk has exhausted its
\* attempts no worker of a later chunk exists.
C6_ChunksInOrder ==
    /\ \A w \in workers :
         Len(PageToks(fullMarkdown)) >= CHUNK_SIZE * ((w.page - 1) \div CHUNK_SIZE)
    /\ ChunkFailure => \A w \in workers : w.page <= CHUNK_SIZE * response.chunk
    /\ chunkStart = CHUNK_SIZE * (Len(PageToks(fullMarkdown)) \div CHUNK_SIZE)
         \/ (chunkStart >= Len(images) /\ Len(PageToks(fullMarkdown)) = Len(images))

\* A call for a page of the second chunk is outstanding.
C6_Witness ==
    \E w \in workers : w.st = "calling" /\ w.page > CHUNK_SIZE

\* The rasterization strategies, in the order of the handler.
Strategies == <<"pdf2pic", "magick", "convert", "gm", "puppeteer">>
Rank(p) == CHOOSE i \in 1..Len(Strategies) : Strategies[i] = p
IsStrategy(p) == p \in Range(Strategies)

\* C12: the strategies are attempted in the order pdf2pic, magick, convert,
\* gm, Puppeteer: the first one starts when the request has been received;
\* every other one starts only from the one before it, when that one has
\* failed; a strategy that succeeded is followed by no strategy; the rank of
\* the running strategy only grows, so none is attempted twice.
C12_StrategyOrder ==
    [][ /\ (IsStrategy(pc') /\ pc' # pc) =>
              \/ pc = "submitted" /\ pc' = Strategies[1]
              \/ /\ IsStrategy(pc)
                 /\ Rank(pc') = Rank(pc) + 1
                 /\ ~conversionSuccess'
        /\ (IsStrategy(pc) /\ pc' # pc) =>
              \/ IsStrategy(pc') /\ Rank(pc') = Rank(pc) + 1 /\ ~conversionSuccess'
              \/ pc' = "check" /\ (conversionSuccess' \/ pc = Strategies[Len(Strategies)])
        /\ IsStrategy(pc) => ~conversionSuccess ]_vars

\* The last strategy is about to run: the four before it have failed, a
\* command-line rasterizer after it had written an image.
C12_Witness ==
    /\ pc = "puppeteer"
    /\ ~conversionSuccess
    /\ UsFile(0) \in imagesDir

\* C13 (as claimed): the image list handed on holds images of the strategy
\* that succeeded only; its files are then all of that strategy's naming.
C13_OnlyOwnImages ==
    conversionSuccess => \A i, j \in 1..Len(images) : images[i].k = images[j].k

\* C14: with n images and chunks of 2, the chunk being processed is chunk k of
\* ceil(n/2), it covers the pages 2k-1 .. min(2k, n), only the last chunk
\* holds fewer than 2 pages, and the loop ends after chunk ceil(n/2); every
\* page is in exactly one of these chunks.
C14_Chunks ==
    LET n == Len(images)
        last == (n + 1) \div 2
        Pages(k) == ((2 * k) - 1)..Min(2 * k, n)
    IN  /\ pc \in {"attempt", "await", "backoff", "afterloop"} =>
              /\ ChunkNumber \in 1..last
              /\ chunkStart = 2 * (ChunkNumber - 1)
              /\ ChunkPages = Pages(ChunkNumber)
              /\ Cardinality(ChunkPages) = 2 \/ (ChunkNumber = last /\ Cardinality(ChunkPages) = 1)
        /\ pc \in {"assemble", "cleanup"} \/ Completed => chunkStart = 2 * last
        /\ pc = "await" =>
              \A p \in 1..n :
                  /\ Cardinality({ k \in 1..last : p \in Pages(k) }) = 1
                  /\ (\E w \in workers : Awaited(w) /\ w.page = p) <=> p \in Pages(ChunkNumber)

\* The second chunk of a three-page document, which holds page 3 alone.
C14_Witness ==
    /\ pc = "await"
    /\ Len(images) = 3
    /\ ChunkPages = {3}

Separators(str) == Len(SelectSeq(str, LAMBDA t : t = RULE))

\* C15: the body of a completed job of n pages is the n page texts with one
\* separator between every two that follow each other and none before the
\* first or after the last, n - 1 separators in all; between two chunks the
\* document built so far ends with the one separator that parts them.
C15_Separators ==
    LET n == Len(images) IN
    /\ (pc \in {"assemble", "cleanup"} \/ Completed) =>
          /\ Len(fullMarkdown) = (6 * n) - 5
          /\ \A i \in 1..Len(fullMarkdown) :
                IF i % 6 = 1 THEN IsPageTok(fullMarkdown[i])
                ELSE fullMarkdown[i] = SEP[(i - 1) % 6]
          /\ Separators(fullMarkdown) = n - 1
    /\ (pc = "chunk" /\ chunkStart > 0) =>
          /\ Separators(fullMarkdown) = chunkStart
          /\ SubSeq(fullMarkdown, Len(fullMarkdown) - 4, Len(fullMarkdown)) = SEP
          /\ IsPageTok(fullMarkdown[Len(fullMarkdown) - 5])

\* A completed job of three pages: a separator inside the first chunk and one
\* between the chunks.
C15_Witness ==
    /\ Completed
    /\ Len(images) = 3
    /\ Separators(response.body) = 2

\* The stage of the job.
Stage ==
    IF response.status = 200 THEN "completed"
    ELSE IF response.status # 0 THEN "error"
    ELSE IF pc = "submitted" THEN "submitted"
    ELSE IF IsStrategy(pc) \/ pc = "check" THEN "rasterizing"
    ELSE IF pc \in {"ocr", "chunk", "attempt", "await", "backoff", "afterloop"}
    THEN "ocr_in_progress"
    ELSE "assembling"

StageMoves ==
    { <<"submitted", "rasterizing">>, <<"rasterizing", "ocr_in_progress">>,
      <<"ocr_in_progress", "assembling">>, <<"assembling", "completed">> }
    \cup { <<st, "error">> :
             st \in {"submitted", "rasterizing", "ocr_in_progress", "assembling"} }

\* C16: the stage of a job changes only along submitted, rasterizing,
\* ocr_in_progress, assembling, completed, one stage at a time, or from a
\* stage that is not terminal to error; no step leaves completed or error,
\* and a response, once given, is the handler's last step.
C16_Stages ==
    [][ /\ Stage' = Stage \/ <<Stage, Stage'>> \in StageMoves
        /\ response # NoResponse => response' = response /\ pc' = pc ]_vars

\* A job that went through every stage and failed in the last one.
C16_Witness ==
    /\ Stage = "error"
    /\ response.error = "render error"
    /\ fullMarkdown # <<>>

\* C20 (as claimed): when the unlink of one artifact throws in the final
\* cleanup, the job still completes and every other artifact is deleted:
\* the upload, each image of the list, the output file.
C20_CleanupBestEffort ==
    (pc = "done" /\ cleanupWarning # 0) =>
        /\ Completed
        /\ cleanupWarning # 1 => ~uploaded
        /\ \A i \in 1..Len(images) : cleanupWarning # i + 1 => images[i] \notin imagesDir
        /\ cleanupWarning # Len(images) + 2 => ~outputFile

\* C21: in the browser fallback a render begins only with the browser idle
\* and the screenshots of all earlier pages in the list, on a document that
\* holds the next page alone; a screenshot adds the one image of the page
\* shown, so the list grows by one image per iteration, in page order; never
\* is more than one document loaded; an accepted run holds one image per page.
C21_OnePageAtATime ==
    [][ pc = "puppeteer" =>
          /\ (browser' = "loaded" /\ browser # "loaded") =>
                /\ browser = "ready"
                /\ Len(images) = pageIndex
                /\ browserPage' = <<pageIndex + 1>>
                /\ images' = images
          /\ (images' # images /\ browser # "closed") =>
                /\ browser = "loaded" /\ browser' = "ready"
                /\ Len(browserPage) = 1
                /\ images' = Append(images, DotFile(browserPage[1]))
                /\ Content(DotFile(browserPage[1])) = PageTok[Len(images')]
                /\ pageIndex' = pageIndex + 1
          /\ (pc' = "check" /\ conversionSuccess') =>
                /\ images' = DotFiles(1..pageCount)
                /\ browser' = "closed" ]_vars

\* Every page of a document of several pages has been rendered by the
\* browser, one after the other, and the browser is about to be closed.
C21_Witness ==
    /\ pc = "puppeteer"
    /\ browser = "ready"
    /\ pageCount > 1
    /\ images = DotFiles(1..pageCount)

\* ============================================ progress store: operations
MaxPosts == 3        \* POST requests of a run of SpecProgress
MaxLogPosts == 52    \* POST requests of a run of SpecLogs
TicksPerTTL == 2     \* clock steps in one time-to-live
MaxTicks == 3        \* clock steps of a run

LOG_CAP == 50
TTL == 3600000
Tick == TTL \div TicksPerTTL

FileIds == {"a", "b"}
NoId == ""           \* a missing or empty fileId
NoUpdate == <<>>

\* The record a first update is merged onto.
Defaults ==
    [totalPages |-> 0, processedPages |-> 0, currentChunk |-> 0, totalChunks |-> 0,
     status |-> "starting", logs |-> <<>>]

\* progressStore.get(fileId) || defaults
Existing(fileId) ==
    IF fileId \in DOMAIN progressStore THEN progressStore[fileId] ELSE Defaults

\* update.log || the empty string; 0 stands for the empty string.
LogOf(update) == IF "log" \in DOMAIN update THEN update["log"] ELSE 0

\* filter(Boolean): the empty entries dropped.
Truthy(line) == line # 0
FilterBoolean(lines) == SelectSeq(lines, Truthy)

\* Mutant: slice(0, 50), the first entries kept.
SliceFirst(lines) == SubSeq(lines, 1, Min(LOG_CAP, Len(lines)))

\* slice(-50): the last 50 entries.
SliceLast(lines) ==
    IF Len(lines) <= LOG_CAP THEN lines
    ELSE SubSeq(lines, Len(lines) - LOG_CAP + 1, Len(lines))

\* Mutant: the spreads in the other order, the existing fields winning.
MergeExistingWins(existing, update) ==
    [ f \in DOMAIN existing \cup DOMAIN update |->
        IF f = "logs"
        THEN SliceLast(FilterBoolean(Append(existing["logs"], LogOf(update))))
        ELSE IF f \in DOMAIN existing THEN existing[f] ELSE update[f] ]

\* { ...existing, ...update, logs: [...existing.logs, update.log].filter.slice }
Merge(existing, update) ==
    [ f \in DOMAIN existing \cup DOMAIN update |->
        IF f = "logs"
        THEN SliceLast(FilterBoolean(Append(existing["logs"], LogOf(update))))
        ELSE IF f \in DOMAIN update THEN update[f] ELSE existing[f] ]

Put(store, fileId, record) ==
    [ id \in DOMAIN store \cup {fileId} |-> IF id = fileId THEN record ELSE store[id] ]

Delete(store, fileId) == [ id \in DOMAIN store \ {fileId} |-> store[id] ]

Json(status, body) == [status |-> status, body |-> body]

StoreInit ==
    /\ progressStore = <<>>
    /\ timers = EmptyBag
    /\ now = 0
    /\ request = [op |-> "none", fileId |-> NoId, update |-> NoUpdate]
    /\ reply = Json(0, [error |-> "none"])
    /\ posts = 0
    /\ sent = [ id \in FileIds |-> 0 ]
    /\ lost = 0

\* Mutant: a miss answered with a fresh default record, which is stored.
GETCreatesOnMiss(fileId) ==
    /\ request' = [op |-> "GET", fileId |-> fileId, update |-> NoUpdate]
    /\ IF fileId = NoId
       THEN reply' = Json(400, [error |-> "fileId required"]) /\ UNCHANGED progressStore
       ELSE /\ reply' = Json(200, Existing(fileId))
            /\ progressStore' = Put(progressStore, fileId, Existing(fileId))
    /\ UNCHANGED <<timers, now, posts, sent, lost>>
    /\ UNCHANGED <<jobVars, clientVars>>

\* GET /api/progress?fileId=...
GET(fileId) ==
    /\ request' = [op |-> "GET", fileId |-> fileId, update |-> NoUpdate]
    /\ reply' = IF fileId = NoId THEN Json(400, [error |-> "fileId required"])
                ELSE IF fileId \notin DOMAIN progressStore
                THEN Json(404, [error |-> "Progress not found"])
                ELSE Json(200, progressStore[fileId])
    /\ UNCHANGED <<progressStore, timers, now, posts, sent, lost>>
    /\ UNCHANGED <<jobVars, clientVars>>

\* Mutant: the record is written and its timer set before the body is
\* looked at.
POSTStoresUnvalidated(body) ==
    /\ posts' = posts + 1
    /\ request' = [op |-> "POST", fileId |-> body.fileId, update |-> body.update]
    /\ IF ~body.parses
       THEN /\ reply' = Json(400, [error |-> "Invalid request"])
            /\ UNCHANGED <<progressStore, timers, sent>>
       ELSE /\ progressStore' = Put(progressStore, body.fileId,
                                    Merge(Existing(body.fileId), body.update))
            /\ timers' = timers (+) SetToBag({[fileId |-> body.fileId, at |-> now + TTL]})
            /\ IF body.fileId = NoId \/ ~body.hasUpdate
               THEN /\ reply' = Json(400, [error |-> "fileId and update required"])
                    /\ UNCHANGED sent
               ELSE /\ reply' = Json(200, [success |-> TRUE])
                    /\ sent' = [sent EXCEPT ![body.fileId] =
                                    IF Truthy(LogOf(body.update)) THEN @ + 1 ELSE @]
    /\ UNCHANGED <<now, lost>>

\* POST /api/progress.  A body is [parses, fileId, hasUpdate, update]: whether
\* request.json() succeeds, the fileId, whether update is truthy, the update.
POST(body) ==
    /\ posts' = posts + 1
    /\ request' = [op |-> "POST", fileId |-> body.fileId, update |-> body.update]
    /\ IF ~body.parses
       THEN /\ reply' = Json(400, [error |-> "Invalid request"])
            /\ UNCHANGED <<progressStore, timers, sent>>
       ELSE IF body.fileId = NoId \/ ~body.hasUpdate
       THEN /\ reply' = Json(400, [error |-> "fileId and update required"])
            /\ UNCHANGED <<progressStore, timers, sent>>
       ELSE /\ progressStore' = Put(progressStore, body.fileId,
                                    Merge(Existing(body.fileId), body.update))
            /\ timers' = timers (+) SetToBag({[fileId |-> body.fileId, at |-> now + TTL]})
            /\ reply' = Json(200, [success |-> TRUE])
            /\ sent' = [sent EXCEPT ![body.fileId] =
                            IF Truthy(LogOf(body.update)) THEN @ + 1 ELSE @]
    /\ UNCHANGED <<now, lost>>

\* A setTimeout callback runs, at its time or later.
Expire(t) ==
    /\ BagIn(t, timers)
    /\ now >= t.at
    /\ progressStore' = Delete(progressStore, t.fileId)
    /\ timers' = timers (-) SetToBag({t})
    /\ UNCHANGED <<now, request, reply, posts, sent, lost>>
    /\ UNCHANGED <<jobVars, clientVars>>

\* Time passes.
Advance ==
    /\ now < MaxTicks * Tick
    /\ now' = now + Tick
    /\ UNCHANGED <<progressStore, timers, request, reply, posts, sent, lost>>
    /\ UNCHANGED <<jobVars, clientVars>>

\* The updates a client posts for a fileId: those of updateProgress's callers,
\* and the shapes any JSON body may take.  A log line is the number of the
\* line among those posted for the fileId.
Updates(fileId) ==
    LET line == sent[fileId] + 1 IN
    { [log |-> line],
      [processedPages |-> 1, status |-> "processed", log |-> line],
      [totalPages |-> 2, processedPages |-> 0, currentChunk |-> 0, totalChunks |-> 1,
       status |-> "extracted", log |-> line],
      [status |-> "quiet"],
      [log |-> 0],
      [logs |-> <<line>>],
      <<>> }

Bodies ==
    { [parses |-> FALSE, fileId |-> NoId, hasUpdate |-> FALSE, update |-> NoUpdate] }
    \cup { [parses |-> TRUE, fileId |-> id, hasUpdate |-> FALSE, update |-> NoUpdate] :
             id \in FileIds \cup {NoId} }
    \cup { [parses |-> TRUE, fileId |-> NoId, hasUpdate |-> TRUE, update |-> [log |-> 1]] }
    \cup UNION { { [parses |-> TRUE, fileId |-> id, hasUpdate |-> TRUE, update |-> u] :
                     u \in Updates(id) } : id \in FileIds }

Get == \E fileId \in FileIds \cup {NoId} : GET(fileId)

Post ==
    /\ posts < MaxPosts
    /\ \E body \in Bodies : POST(body)
    /\ UNCHANGED <<jobVars, clientVars>>

TimerFires == \E t \in BagToSet(timers) : Expire(t)

\* A client that posts log lines only.
PostLog ==
    /\ posts < MaxLogPosts
    /\ \E id \in FileIds :
         POST([parses |-> TRUE, fileId |-> id, hasUpdate |-> TRUE,
               update |-> [log |-> sent[id] + 1]])
    /\ UNCHANGED <<jobVars, clientVars>>

\* ========================================= the handler's progress updates
MaxReportPages == 1  \* pages of the document of a run of SpecReport
MaxLost == 1         \* requests of updateProgress that fail in a run

JobId == "a"         \* the fileId of the job

\* What becomes of the request of updateProgress: the store takes it, or it
\* fails: fetch throws (a network error) or the request is answered with an
\* error status (a rejected request), and the store holds nothing new.
Outcomes == {"stored", "failed"}
FetchError == "fetch failed"

\* The text of a log line of the handler: a string that is not empty, which
\* the store does not look into.
LINE == 1

TotalChunks == (Len(images) + 1) \div 2

ExtractedUpdate ==
    [totalPages |-> Len(images), processedPages |-> 0, currentChunk |-> 0,
     totalChunks |-> TotalChunks, status |-> "extracted", log |-> LINE]
StartingUpdate ==
    [totalPages |-> Len(images), processedPages |-> 0, currentChunk |-> 0,
     totalChunks |-> TotalChunks, status |-> "starting ocr", log |-> LINE]
ChunkUpdate ==
    [currentChunk |-> ChunkNumber, status |-> "processing chunk", log |-> LINE]
AttemptUpdate == [log |-> LINE]
SendingUpdate(w) == [status |-> "sending page", log |-> LINE]
ProcessedUpdate(w) ==
    [processedPages |-> w.page, status |-> "page processed", log |-> LINE]
CompletedUpdate ==
    [processedPages |-> ChunkEnd, status |-> "chunk completed", log |-> LINE]
FailedUpdate == [log |-> LINE]
RetryingUpdate == [log |-> LINE]
ChunkFailedUpdate == [log |-> LINE]
OcrCompleteUpdate ==
    [processedPages |-> Len(images), status |-> "ocr complete", log |-> LINE]
GeneratedUpdate == [status |-> "pdf generated", log |-> LINE]

\* Mutant: updateProgress without its try and catch.
UpdateProgressRethrows(outcome) == outcome = "failed"

\* Whether updateProgress throws: its catch swallows whatever fetch throws,
\* and the response is not looked at.
UpdateProgressThrows(outcome) == FALSE

\* The request of updateProgress, and what becomes of it.
Fetch(update, outcome) ==
    IF outcome = "stored"
    THEN POST([parses |-> TRUE, fileId |-> JobId, hasUpdate |-> TRUE, update |-> update])
    ELSE /\ lost < MaxLost
         /\ lost' = lost + 1
         /\ UNCHANGED <<progressStore, timers, now, request, reply, posts, sent>>

\* await updateProgress(fileId, update) in the handler, followed by step.
UpdateProgress(update, step) ==
    \E outcome \in Outcomes :
        /\ Fetch(update, outcome)
        /\ IF UpdateProgressThrows(outcome) THEN OuterCatch(FetchError) ELSE step

\* await updateProgress(fileId, update) in the worker w, followed by step.
WorkerUpdateProgress(w, update, step) ==
    \E outcome \in Outcomes :
        /\ Fetch(update, outcome)
        /\ IF UpdateProgressThrows(outcome) THEN Reject(w, FetchError) ELSE step

ReportConversionCheck ==
    IF ~conversionSuccess \/ Len(images) = 0
    THEN ConversionCheck /\ UNCHANGED storeVars
    ELSE UpdateProgress(ExtractedUpdate, ConversionCheck)

ReportStartOcr == pc = "ocr" /\ UpdateProgress(StartingUpdate, StartOcr)

ReportStartChunk == pc = "chunk" /\ UpdateProgress(ChunkUpdate, StartChunk)

\* The update names the attempt that starts.
ReportStartAttempt == pc = "attempt" /\ UpdateProgress(AttemptUpdate, StartAttempt)

\* Mutant: the worker sends its call without a word.
ReportSendCallQuiet(w) == w.st = "before" /\ SendCall(w) /\ UNCHANGED storeVars

\* The worker up to its call: the update, the image, generateContent.
ReportSendCall(w) == w.st = "before" /\ WorkerUpdateProgress(w, SendingUpdate(w), SendCall(w))

\* The catch of the attempt loop reports the failed attempt.
ReportReject(w, step) ==
    IF Awaited(w) THEN UpdateProgress(FailedUpdate, step) ELSE step /\ UNCHANGED storeVars

ReportCallFails(w) == w.st = "calling" /\ ReportReject(w, CallFails(w))

ReportCallReturns(w) ==
    /\ w.st = "calling"
    /\ \E raw \in Responses(Content(images[w.page])) :
         IF CleanCodeBlocks(raw).ok
         THEN WorkerUpdateProgress(w, ProcessedUpdate(w), CallReturnsWith(w, raw))
         ELSE ReportReject(w, CallReturnsWith(w, raw))

ReportAttemptSucceeds == pc = "await" /\ UpdateProgress(CompletedUpdate, AttemptSucceeds)

\* The retry is announced, then the timer is set.
ReportBackoff == pc = "backoff" /\ UpdateProgress(RetryingUpdate, Backoff)

ReportAfterAttempts ==
    /\ pc = "afterloop"
    /\ IF ChunkFailed THEN UpdateProgress(ChunkFailedUpdate, AfterAttempts)
       ELSE IF ChunkEnd < Len(images) THEN AfterAttempts /\ UNCHANGED storeVars
       ELSE UpdateProgress(OcrCompleteUpdate, AfterAttempts)

ReportAssemble ==
    /\ pc = "assemble"
    /\ \/ UpdateProgress(GeneratedUpdate, Assemble /\ outputFile')
       \/ Assemble /\ ~outputFile' /\ UNCHANGED storeVars

\* The handler with its progress updates and the store they are posted to.
ReportNext ==
    \/ Receive /\ UNCHANGED <<storeVars, clientVars>>
    \/ Pdf2pic /\ UNCHANGED <<storeVars, clientVars>>
    \/ Magick /\ UNCHANGED <<storeVars, clientVars>>
    \/ Convert /\ UNCHANGED <<storeVars, clientVars>>
    \/ Gm /\ UNCHANGED <<storeVars, clientVars>>
    \/ Puppeteer /\ UNCHANGED <<storeVars, clientVars>>
    \/ PuppeteerGoto /\ UNCHANGED <<storeVars, clientVars>>
    \/ PuppeteerScreenshot /\ UNCHANGED <<storeVars, clientVars>>
    \/ PuppeteerClose /\ UNCHANGED <<storeVars, clientVars>>
    \/ ReportConversionCheck /\ UNCHANGED clientVars
    \/ ReportStartOcr /\ UNCHANGED clientVars
    \/ ReportStartChunk /\ UNCHANGED clientVars
    \/ ReportStartAttempt /\ UNCHANGED <<clientVars, started>>
    \/ \E w \in workers : ReportSendCall(w) /\ UNCHANGED clientVars
    \/ \E w \in workers : ReportCallFails(w) /\ UNCHANGED clientVars
    \/ \E w \in workers : ReportCallReturns(w) /\ UNCHANGED clientVars
    \/ \E w \in workers : WorkerReturns(w) /\ UNCHANGED <<storeVars, clientVars>>
    \/ ReportAttemptSucceeds /\ UNCHANGED clientVars
    \/ ReportAfterAttempts /\ UNCHANGED clientVars
    \/ ReportBackoff /\ UNCHANGED clientVars
    \/ Sleep /\ UNCHANGED <<storeVars, clientVars>>
    \/ Retry /\ UNCHANGED <<storeVars, clientVars>>
    \/ ReportAssemble /\ UNCHANGED clientVars
    \/ Respond /\ UNCHANGED <<storeVars, clientVars>>

\* =============================================== the page: processFiles
MaxFiles == 11       \* files selected on the page: 0..MaxFiles

\* The options of the batch size selector.
BatchSizes == {10, 20, 30}

\* A progressMessage and a progressDetails that are not set, and the page
\* without a success message.
Undefined == "undefined"
NoDetails == <<>>
NoSuccess == [text |-> "", n |-> 0]

\* The page as it is loaded: no file selected, the first option selected.
PageLoaded ==
    /\ files = <<>>
    /\ batchSize = 10
    /\ isProcessing = FALSE
    /\ pendingFiles = <<>>
    /\ batchStart = 0
    /\ processedCount = 0
    /\ requests = {}
    /\ clientPc = "idle"
    /\ progressMessage = <<>>
    /\ progressDetails = <<>>
    /\ intervals = {}
    /\ polls = {}
    /\ success = NoSuccess

\* The page after handleFileSelect: n files, all of them pending.
Selected(n) ==
    /\ files = [ k \in 1..n |-> "pending" ]
    /\ batchSize = 10
    /\ isProcessing = FALSE
    /\ pendingFiles = <<>>
    /\ batchStart = 0
    /\ processedCount = 0
    /\ requests = {}
    /\ clientPc = "idle"
    /\ progressMessage = [ k \in 1..n |-> Undefined ]
    /\ progressDetails = [ k \in 1..n |-> NoDetails ]
    /\ intervals = {}
    /\ polls = {}
    /\ success = NoSuccess

FilesSelected == \E n \in 0..MaxFiles : Selected(n)

\* The selector, which is disabled while files are processed.
SetBatchSize(size) ==
    /\ ~isProcessing
    /\ clientPc = "idle"
    /\ batchSize # size
    /\ batchSize' = size
    /\ UNCHANGED <<files, isProcessing, pendingFiles, batchStart, processedCount,
                   requests, clientPc, progressMessage, progressDetails, intervals,
                   polls, success>>

\* files.filter(f => f.status === 'pending'), as places in the list.
RECURSIVE Pending(_, _)
Pending(list, k) ==
    IF k > Len(list) THEN <<>>
    ELSE (IF list[k] = "pending" THEN <<k>> ELSE <<>>) \o Pending(list, k + 1)

\* The button, which is disabled while files are processed; with no file
\* selected processFiles returns at once.
ProcessFiles ==
    /\ ~isProcessing
    /\ clientPc = "idle"
    /\ Len(files) > 0
    /\ isProcessing' = TRUE
    /\ pendingFiles' = Pending(files, 1)
    /\ processedCount' = 0
    /\ batchStart' = 0
    /\ clientPc' = "batch"
    /\ success' = NoSuccess
    /\ UNCHANGED <<files, batchSize, requests, progressMessage, progressDetails,
                   intervals, polls>>

\* pendingFiles.slice(i, i + batchSize)
Batch == SubSeq(pendingFiles, batchStart + 1, Min(batchStart + batchSize, Len(pendingFiles)))

\* The body of the batch loop up to its await: the files of the batch are
\* marked, and batch.map, for each of them, sets the interval of its polls,
\* sets its message and sends its request.
StartBatch ==
    /\ clientPc = "batch"
    /\ batchStart < Len(pendingFiles)
    /\ files' = [ k \in 1..Len(files) |->
                    IF k \in Range(Batch) THEN "processing" ELSE files[k] ]
    /\ progressMessage' = [ k \in 1..Len(files) |->
                    IF k \in Range(Batch) THEN "Converting PDF to images..."
                    ELSE progressMessage[k] ]
    /\ intervals' = intervals \cup Range(Batch)
    /\ requests' = requests \cup Range(Batch)
    /\ clientPc' = "await"
    /\ UNCHANGED <<batchSize, isProcessing, pendingFiles, batchStart, processedCount,
                   progressDetails, polls, success>>

\* The request of a file is answered: with the document, or with an error
\* (also a request that failed); the file's message and details are cleared,
\* its interval is cleared in the finally, and the promise of the file settles.
Response(f, ok) ==
    /\ f \in requests
    /\ requests' = requests \ {f}
    /\ processedCount' = processedCount + 1
    /\ files' = [files EXCEPT ![f] = IF ok THEN "completed" ELSE "error"]
    /\ progressMessage' = [progressMessage EXCEPT ![f] = Undefined]
    /\ progressDetails' = [progressDetails EXCEPT ![f] = NoDetails]
    /\ intervals' = intervals \ {f}
    /\ UNCHANGED <<batchSize, isProcessing, pendingFiles, batchStart, clientPc,
                   polls, success>>

\* Mutant: Promise.race, the first promise that settles.
AnySettled(batch) == \E k \in 1..Len(batch) : batch[k] \notin requests

\* await Promise.all(promises): every promise of the batch has settled.
AllSettled(batch) == \A k \in 1..Len(batch) : batch[k] \notin requests

\* The batch is done: i += batchSize.
NextBatch ==
    /\ clientPc = "await"
    /\ AllSettled(Batch)
    /\ batchStart' = batchStart + batchSize
    /\ clientPc' = "batch"
    /\ UNCHANGED <<files, batchSize, isProcessing, pendingFiles, processedCount, requests,
                   progressMessage, progressDetails, intervals, polls, success>>

\* `Processed ${processedCount} file(s) successfully`
SuccessMessage(count) == [text |-> "Processed file(s) successfully", n |-> count]

\* The loop has ended.
Finish ==
    /\ clientPc = "batch"
    /\ batchStart >= Len(pendingFiles)
    /\ isProcessing' = FALSE
    /\ success' = SuccessMessage(processedCount)
    /\ clientPc' = "finished"
    /\ UNCHANGED <<files, batchSize, pendingFiles, batchStart, processedCount, requests,
                   progressMessage, progressDetails, intervals, polls>>

\* What /api/progress answers a poll with when it answers 200: a record of
\* the store, whose status may be the empty string.
PolledRecords == { Defaults, [Defaults EXCEPT !["status"] = ""] }

\* The interval of a file fires and the poll is sent.
PollSend(f) ==
    /\ f \in intervals
    /\ f \notin polls
    /\ polls' = polls \cup {f}
    /\ UNCHANGED <<files, batchSize, isProcessing, pendingFiles, batchStart,
                   processedCount, requests, clientPc, progressMessage,
                   progressDetails, intervals, success>>

\* The poll of a file is answered: with a record, which is put into the
\* file's entry of the list, or with 404 or not at all, which is ignored.
PollAnswer(f, ok, progress) ==
    /\ f \in polls
    /\ polls' = polls \ {f}
    /\ IF ok
       THEN /\ progressMessage' = [progressMessage EXCEPT ![f] =
                    IF progress["status"] # "" THEN progress["status"] ELSE @]
            /\ progressDetails' = [progressDetails EXCEPT ![f] = progress]
       ELSE UNCHANGED <<progressMessage, progressDetails>>
    /\ UNCHANGED <<files, batchSize, isProcessing, pendingFiles, batchStart,
                   processedCount, requests, clientPc, intervals, success>>

ClientNext ==
    \/ \E size \in BatchSizes : SetBatchSize(size) /\ UNCHANGED <<jobVars, storeVars>>
    \/ ProcessFiles /\ UNCHANGED <<jobVars, storeVars>>
    \/ StartBatch /\ UNCHANGED <<jobVars, storeVars>>
    \/ \E f \in requests, ok \in BOOLEAN : Response(f, ok) /\ UNCHANGED <<jobVars, storeVars>>
    \/ NextBatch /\ UNCHANGED <<jobVars, storeVars>>
    \/ Finish /\ UNCHANGED <<jobVars, storeVars>>

\* ======================================================== specifications
\* The handler alone.
Init == JobInit /\ StoreInit /\ PageLoaded
Spec == Init /\ [][JobNext]_vars

\* The handler alone, when every step that can be taken is taken in the end:
\* the event loop runs what is ready, and every external call and every
\* timer comes back.
SpecLive == Init /\ [][JobNext]_vars /\ WF_vars(JobNext)

\* C22: every job is answered in the end, with the document or with an
\* error: it does not wait or retry for ever.
C22_Terminates == <>(pc = "done" /\ response.status \in {200, 400, 500})

\* A job was answered on the last attempt of its second chunk, while a call
\* of a failed attempt was still outstanding.
C22_Witness ==
    /\ pc = "done"
    /\ Completed
    /\ attempt = MAX_RETRIES + 1
    /\ chunkStart > CHUNK_SIZE
    /\ \E w \in workers : w.st = "calling"

\* The handler and its console.
SpecConsole == Init /\ [][ConsoleNext]_vars

\* The page and its requests, whatever the server answers.
ClientInit ==
    /\ JobInit
    /\ pageCount = 1
    /\ file
    /\ apiKey = <<"key">>
    /\ StoreInit
    /\ FilesSelected
SpecClient == ClientInit /\ [][ClientNext]_vars

\* The page, its requests and the polls of its intervals.
MaxPollFiles == 2    \* files selected on the page of a run of SpecPoll

PollInit ==
    /\ JobInit
    /\ pageCount = 1
    /\ file
    /\ apiKey = <<"key">>
    /\ StoreInit
    /\ \E n \in 0..MaxPollFiles : Selected(n)

Poll ==
    \/ \E f \in intervals : PollSend(f) /\ UNCHANGED <<jobVars, storeVars>>
    \/ \E f \in polls, ok \in BOOLEAN, progress \in PolledRecords :
          PollAnswer(f, ok, progress) /\ UNCHANGED <<jobVars, storeVars>>

PollNext == ClientNext \/ Poll
SpecPoll == PollInit /\ [][PollNext]_vars

\* C31: a file that is completed or error has neither progress message nor
\* progress details, whatever polls are answered after its request, and a
\* poll is sent only for a file whose request is in flight.
C31_StaysCleared ==
    [][ /\ \A f \in 1..Len(files') :
              files'[f] \in {"completed", "error"} =>
                  /\ progressMessage'[f] = Undefined
                  /\ progressDetails'[f] = NoDetails
        /\ polls' \ polls \subseteq requests ]_vars

\* C23: the batch size is 10, 20 or 30 and does not change during a run; at
\* most that many requests are in flight; requests are sent only when none is
\* in flight and every file of the batches before has finished, as completed
\* or as error, and those sent are the next batchSize pending files (fewer in
\* the last batch).
C23_Batches ==
    [][ /\ batchSize' \in BatchSizes
        /\ isProcessing => batchSize' = batchSize
        /\ Cardinality(requests') <= batchSize'
        /\ requests' \ requests # {} =>
              /\ requests = {}
              /\ batchStart % batchSize = 0
              /\ \A k \in 1..batchStart :
                    files[pendingFiles[k]] \in {"completed", "error"}
              /\ requests' = { pendingFiles[k] :
                                 k \in (batchStart + 1)..Min(batchStart + batchSize,
                                                             Len(pendingFiles)) } ]_vars

\* The second batch is in flight, after a first batch of which a file failed.
C23_Witness ==
    /\ batchStart > 0
    /\ requests # {}
    /\ \E k \in 1..batchStart : files[pendingFiles[k]] = "error"

\* C32: the number in the success message of a run is the number of files
\* of the run that became completed; files that ended as error are not
\* counted.
C32_CountsCompleted ==
    success # NoSuccess =>
        success.n = Cardinality({ k \in Range(pendingFiles) : files[k] = "completed" })

\* C24: the attempt number never exceeds 3; an attempt starts only for a
\* chunk that has not succeeded, as the next of its attempts, and it is the
\* one thing that adds to the count of attempts started; once a chunk has
\* succeeded no attempt starts until the next chunk is at hand; a job of n
\* images never starts more than 3 * ceil(n/2) attempts.
C24_AttemptsBounded ==
    [][ /\ attempt' <= 3
        /\ started' <= 3 * ((Len(images') + 1) \div 2)
        /\ started' <= (3 * (ChunkNumber - 1)) + attempt
        /\ started' # started =>
              /\ started' = started + 1
              /\ pc = "attempt" /\ pc' = "await"
              /\ ~chunkSuccess
              /\ attempt \in 1..3
              /\ \A w \in workers' \ workers : w.attempt = attempt /\ w.page \in ChunkPages
        /\ workers' \ workers # {} /\ (\E w \in workers' \ workers : w.st = "before")
              => started' = started + 1
        /\ (chunkSuccess /\ chunkStart' = chunkStart) => started' = started ]_vars

\* A job of two chunks completed after each chunk had taken three attempts.
C24_Witness ==
    /\ Completed
    /\ TotalChunks = 2
    /\ started = 3 * TotalChunks

\* C25: after failed attempt k, k = 1 or 2, a timer of 1000 * k milliseconds
\* is set; only while it is pending does the handler wait; attempt k + 1
\* starts only when that time has passed; after the failed attempt 3 no timer
\* is set and the handler does not wait.
C25_Backoff ==
    [][ /\ (delay' # delay /\ delay' # 0) =>
              /\ pc = "backoff"
              /\ lastError # "none"
              /\ attempt \in 1..2
              /\ delay' = 1000 * attempt
              /\ waited' = 0
        /\ waited' > waited => (pc = "backoff" /\ waited < delay)
        /\ (attempt >= 1 /\ attempt' > attempt) =>
              /\ pc = "backoff" /\ pc' = "attempt"
              /\ attempt' = attempt + 1
              /\ delay = 1000 * attempt
              /\ waited >= delay
        /\ (pc = "backoff" /\ pc' # "backoff") => attempt' = attempt + 1
        /\ (pc = "attempt" /\ attempt > 1) => (delay = 0 /\ waited = 0)
        /\ attempt = 3 => (pc # "backoff" /\ delay = 0 /\ waited = 0) ]_vars

\* The second attempt of a chunk has failed and the 2000 milliseconds of its
\* timer have passed.
C25_Witness ==
    /\ pc = "backoff"
    /\ attempt = 2
    /\ delay = 2000
    /\ waited = 2000

\* The worker invocations a step makes.
Invoked == { w \in workers' \ workers : w.st = "before" }

\* C26: the worker is invoked for all pages of the chunk at once, at the
\* start of an attempt and with that attempt's number, also for the pages
\* that fulfilled in the attempt that failed; an invocation sends one call;
\* the text of a chunk is joined from the results of the workers of the one
\* attempt that succeeded, a result for each page of the chunk.
C26_ChunkScopedRetry ==
    [][ /\ Invoked # {} =>
              /\ pc = "attempt"
              /\ Invoked = { Worker(p, attempt, "before", <<>>) : p \in ChunkPages }
              /\ \A w \in workers : w.page \in ChunkPages => w.attempt < attempt
        /\ \A w \in workers' \ workers :
              w.st = "calling" => Worker(w.page, w.attempt, "before", <<>>) \in workers \ workers'
        /\ (chunkSuccess' /\ ~chunkSuccess) =>
              \E res \in [ ChunkPages -> workers ] :
                  /\ \A p \in ChunkPages :
                        /\ res[p].page = p
                        /\ res[p].attempt = attempt
                        /\ res[p].st = "fulfilled"
                  /\ chunkMarkdown' =
                        Join([ k \in 1..Cardinality(ChunkPages) |-> res[chunkStart + k].text ], SEP) ]_vars

\* The second attempt of a chunk of two pages is under way after a call of
\* the first one had failed: the worker of page 1 has fulfilled in it, and
\* the call of page 2 is outstanding.
C26_Witness ==
    /\ pc = "await"
    /\ attempt = 2
    /\ lastError = ApiError(1)
    /\ completion = <<1>>
    /\ \E w \in workers : w.page = 2 /\ w.attempt = 2 /\ w.st = "calling"

\* The store under any client, no job running.
StoreOnlyInit ==
    /\ JobInit
    /\ pageCount = 1
    /\ file
    /\ apiKey = <<"key">>
    /\ StoreInit
    /\ PageLoaded
ProgressNext == Get \/ Post \/ TimerFires \/ Advance
SpecProgress == StoreOnlyInit /\ [][ProgressNext]_vars

LogsNext == Get \/ PostLog
SpecLogs == StoreOnlyInit /\ [][LogsNext]_vars

\* The handler in an images directory that holds files of an earlier run
\* with the same fileId, and where another job is at work.
MaxStale == 1        \* images an earlier run left, of each naming
MaxOther == 1        \* images of the other job

StaleFiles == { DotFile(i) : i \in 1..MaxStale } \cup { UsFile(i - 1) : i \in 1..MaxStale }
OtherFiles == { OtherFile(i) : i \in 1..MaxOther }

SharedInit ==
    /\ FreshJob
    /\ imagesDir \in SUBSET (StaleFiles \cup OtherFiles)
    /\ StoreInit
    /\ PageLoaded

OtherJobRuns ==
    /\ pc # "done"
    /\ \E n \in 1..MaxOther : OtherJob(n)
    /\ UNCHANGED <<storeVars, clientVars>>

SharedNext == JobNext \/ OtherJobRuns
SpecShared == SharedInit /\ [][SharedNext]_vars

\* C18 (as claimed): the image list of the job never holds a file of another
\* job, and no step of the handler removes a file of another job from the
\* images directory.
C18_JobsIsolated ==
    [][ /\ \A i \in 1..Len(images') : images'[i].k # "other"
        /\ <<pc, workers>>' # <<pc, workers>> =>
              \A f \in imagesDir : f.k = "other" => f \in imagesDir' ]_vars

\* C19 (as claimed): when the first strategy is about to run, the images
\* directory holds no image of this fileId, which an earlier run left.
C19_NoStaleImages ==
    pc = "pdf2pic" => \A f \in imagesDir : f.k = "other"

\* The handler and the store its updates go to.
ReportInit == JobInit /\ pageCount <= MaxReportPages /\ StoreInit /\ PageLoaded
SpecReport == ReportInit /\ [][ReportNext]_vars

\* The handler, with a document that fills one chunk, and the store.
ReportChunkInit == JobInit /\ pageCount = CHUNK_SIZE /\ StoreInit /\ PageLoaded
SpecReportChunk == ReportChunkInit /\ [][ReportNext]_vars

\* A step in which the route answers a request.
Answered ==
    \/ posts' = posts + 1
    \/ request'.op = "GET" /\ <<request', reply'>> # <<request, reply>>

\* C30: a request without a job id is answered 400, as is a POST without an
\* update or with a body that does not parse (they are the only requests
\* answered 400), and a request answered 400 leaves the store as it was: no
\* record is created, changed or removed and no timer is set.
C30_RejectedLeavesStore ==
    [][ Answered =>
          /\ request'.fileId = NoId => reply'.status = 400
          /\ reply'.status = 400 =>
                /\ request'.fileId = NoId \/ request'.update = NoUpdate
                /\ progressStore' = progressStore
                /\ timers' = timers
                /\ sent' = sent ]_vars

\* A POST that names the fileId of a stored record and carries no update
\* was answered 400: the record and its one timer are those of the POST
\* before it.
C30_Witness ==
    /\ request = [op |-> "POST", fileId |-> "a", update |-> NoUpdate]
    /\ reply.status = 400
    /\ posts = 2
    /\ "a" \in DOMAIN progressStore
    /\ BagCardinality(timers) = 1

\* ====================================== claims on the handler's reporting
\* C11: whatever becomes of the progress updates, stored or failed, every
\* step of the handler is a step it takes with no store at all, and no
\* response carries the error of an update.
C11_UpdatesNeverAffect ==
    [][ JobStep /\ response'.error # FetchError ]_jobVars

\* A job completed although an update of its progress failed.
C11_Witness ==
    /\ Completed
    /\ lost > 0

ConfigurationError ==
    ErrorResponse(500, "GEMINI_API_KEY is not configured in .env file.")

\* C17: a request with a file, when the credential is absent or blank, is
\* answered at once with the configuration error: nothing was uploaded, no
\* image made, no worker started, no call sent, no update posted, and no
\* other answer is ever given.
C17_NoCredential ==
    (file /\ Trim(apiKey) = <<>>) =>
        /\ pc \in {"submitted", "done"}
        /\ pc = "done" => response = ConfigurationError
        /\ response \in {NoResponse, ConfigurationError}
        /\ ~uploaded /\ ~outputFile
        /\ imagesDir = {} /\ images = <<>>
        /\ workers = {}
        /\ progressStore = <<>> /\ posts = 0 /\ lost = 0

\* A request with a file was answered while the credential was blank.
C17_Witness ==
    /\ file
    /\ apiKey = <<NL>>
    /\ pc = "done"

\* A step in which updateProgress is called with the update u: its request
\* reaches the store, or it is lost.
Emitted(u) ==
    \/ posts' = posts + 1 /\ request'.update = u
    \/ lost' = lost + 1

\* The worker w is, after the step, past its call with a text.
Cleaned(w) ==
    \E x \in workers' : x.page = w.page /\ x.attempt = w.attempt /\ x.st = "after"

C28_StrippingNeverFails ==
    /\ \A w \in workers :
          w.st \in {"after", "fulfilled"} => w.text = <<Content(images[w.page])>>
    /\ lastError # TypeError
    /\ response.cause # TypeError

\* C29: over the life of a job the processedPages of its record never
\* decreases.
C29_ProcessedPagesMonotone ==
    [][ (JobId \in DOMAIN progressStore /\ JobId \in DOMAIN progressStore') =>
            progressStore'[JobId]["processedPages"] >= progressStore[JobId]["processedPages"] ]_vars

\* ==================================================== claims on the store
Logs(id) == progressStore[id]["logs"]

\* C7: a record's log list never holds more than 50 entries, and what it
\* holds are the most recent lines posted for the fileId, in posting order.
C7_LogWindow ==
    \A id \in DOMAIN progressStore :
        /\ Len(Logs(id)) <= 50
        /\ Len(Logs(id)) = Min(sent[id], 50)
        /\ \A i \in 1..Len(Logs(id)) : Logs(id)[i] = sent[id] - Len(Logs(id)) + i

\* More than 50 lines were posted for a fileId, and the oldest are gone.
C7_Witness ==
    \E id \in DOMAIN progressStore :
        sent[id] > 50 /\ Len(Logs(id)) = 50 /\ Logs(id)[1] = sent[id] - 49

\* A step that is a GET request (one that is not a repeat of the last request).
IsGet == request'.op = "GET" /\ <<request, reply>>' # <<request, reply>>
\* A step that is a POST request the store accepted.
PostAccepted == posts' = posts + 1 /\ reply'.status = 200

\* C8: a fetch for a fileId that has no record is answered 404, and leaves
\* the store and its timers as they were.
C8_MissIsNotFound ==
    [][ (IsGet /\ request'.fileId \in FileIds /\ request'.fileId \notin DOMAIN progressStore)
          => /\ reply'.status = 404
             /\ progressStore' = progressStore
             /\ timers' = timers ]_vars

\* A fetch answered 404 for a fileId whose record has expired.
C8_Witness ==
    /\ request.op = "GET"
    /\ reply.status = 404
    /\ request.fileId \in FileIds
    /\ sent[request.fileId] > 0

\* C9 (as claimed): every field the update names takes the update's value,
\* every other field keeps its value, and the update's log line is appended.
C9_MergeAsClaimed ==
    [][ PostAccepted =>
          LET id == request'.fileId
              u == request'.update
              ex == Existing(id)
              new == progressStore'[id]
          IN  /\ \A f \in DOMAIN u : new[f] = u[f]
              /\ \A f \in DOMAIN ex \ (DOMAIN u \cup {"logs"}) : new[f] = ex[f]
              /\ new["logs"] = IF "log" \in DOMAIN u THEN Append(ex["logs"], u["log"])
                               ELSE ex["logs"] ]_vars

\* C9 (amended): every field the update names, except logs, takes the
\* update's value, every other field keeps its value, and the update's log
\* line, when it is not empty, is appended to the log list, of which the last
\* 50 entries are kept; with no record the merge is onto the defaults; a
\* fetch returns the stored record.
C9_Merge ==
    [][ /\ PostAccepted =>
            LET id == request'.fileId
                u == request'.update
                ex == Existing(id)
                new == progressStore'[id]
                appended == IF "log" \in DOMAIN u /\ u["log"] # 0
                            THEN Append(ex["logs"], u["log"]) ELSE ex["logs"]
            IN  /\ DOMAIN new = DOMAIN ex \cup DOMAIN u
                /\ \A f \in DOMAIN u \ {"logs"} : new[f] = u[f]
                /\ \A f \in DOMAIN ex \ (DOMAIN u \cup {"logs"}) : new[f] = ex[f]
                /\ new["logs"] = IF Len(appended) <= 50 THEN appended
                                 ELSE SubSeq(appended, Len(appended) - 49, Len(appended))
                /\ id \notin DOMAIN progressStore =>
                     /\ \A f \in {"totalPages", "processedPages", "currentChunk",
                                  "totalChunks"} \ DOMAIN u : new[f] = 0
                     /\ "status" \notin DOMAIN u => new["status"] = "starting"
                     /\ new["logs"] = IF "log" \in DOMAIN u /\ u["log"] # 0
                                      THEN <<u["log"]>> ELSE <<>>
        /\ (IsGet /\ request'.fileId \in DOMAIN progressStore) =>
              reply'.status = 200 /\ reply'.body = progressStore[request'.fileId] ]_vars

\* An update that names some fields was merged into a record that holds
\* values of an earlier update.
C9_Witness ==
    /\ request.op = "POST"
    /\ reply.status = 200
    /\ request.fileId \in DOMAIN progressStore
    /\ "status" \in DOMAIN request.update
    /\ "totalPages" \notin DOMAIN request.update
    /\ progressStore[request.fileId]["totalPages"] = 2
    /\ progressStore[request.fileId]["status"] = request.update["status"]
    /\ Len(Logs(request.fileId)) >= 2

\* C10 (as claimed): less than one time-to-live after the most recent update
\* of a fileId (the timer that update set is not due yet) its record is
\* present.
C10_PresentWithinTTL ==
    \A t \in BagToSet(timers) : now < t.at => t.fileId \in DOMAIN progressStore

====
